---- MODULE Spec2Model ----
(***************************************************************************)
(* Portfolio ledger: the operation log (Firestore collection 'operations'),*)
(* the Position Deriver (calculatePositions, weighted-average cost basis)  *)
(* and the Realized P&L Engine (the FIFO matcher of ClosedOperations).     *)
(*                                                                         *)
(* Numbers: quantities and prices are integers here; every quotient the    *)
(* code computes (average buy price, P&L percent) is an exact rational     *)
(* [n, d] in lowest terms, so IEEE-754 rounding is abstracted away.         *)
(* Dates are day numbers: new Date(s).getTime() is monotone in the         *)
(* calendar date of a 'YYYY-MM-DD' string.                                  *)
(***************************************************************************)
EXTENDS Integers, Sequences, FiniteSets, TLC

VARIABLES
    ledger,        \* the documents of collection 'operations', ascending by timestamp
    posSnapshot,   \* the operations array the positions listener last received
    positions,     \* what that listener handed to onUpdate (derived positions)
    operations,    \* ClosedOperations component state: last snapshot, sorted by date
    closedTrades,  \* ClosedOperations memo: the trades replayed from `operations`
    inventory,     \* the lot queues per ticker as the last replay left them
    replays,       \* how often the memo replayed the current `operations` (1 or 2+)
    now,           \* Date.now(), in milliseconds
    FOREX_CACHE,   \* settings.ts: pair -> [rate, timestamp]
    forexCalls,    \* getExchangeRate calls awaiting the provider's response
    lastCall,      \* <<>> or <<r>>: the getExchangeRate call that returned last
    CACHE,         \* marketData.ts: symbol -> [timestamp, data]
    marketDataInfo,\* Dashboard state: ticker -> MarketData | null
    loadRun,       \* the loadData runs since none was under way, in the order they started
    lastFetch,     \* <<>> or <<r>>: the fetchMarketData call that returned last
    portfolioHistory, \* the values of the Dashboard's value series, by date
    metrics,       \* the metrics memo: calculateMetrics(portfolioHistory)
    dashboardOperations \* Dashboard state `operations`: the operations listener's snapshot

ledgerVars == <<ledger, posSnapshot, positions, operations, closedTrades, inventory, replays>>

forexVars == <<now, FOREX_CACHE, forexCalls, lastCall>>

marketVars == <<CACHE, marketDataInfo, loadRun, lastFetch>>

metricsVars == <<portfolioHistory, metrics>>

seriesVars == <<dashboardOperations>>

vars == <<ledgerVars, forexVars, marketVars, metricsVars, seriesVars>>

-----------------------------------------------------------------------------
(* Bounds and input domains *)

MaxOps == 3

\* The instants at which the clock is read
Times == {0, 150000, 300000}

StartTime == CHOOSE t \in Times : \A u \in Times : t <= u

Dates == {1, 2}

\* op.broker absent (legacy documents)
NoBroker == "undefined"

\* op.priceInUSD is <<usd>> when the document has the field, <<>> when it is
\* absent (legacy documents)
NoUSD == <<>>

\* op.currency absent (legacy documents)
NoCurrency == "undefined"

\* The order tickets an operation is entered from: the spec's AAPL scenario
\* (10 @ 100, 5 @ 120, 12 @ 150) on a legacy key without broker, and one
\* EUR-priced ticket at a named broker whose priceInUSD differs from price.
Tickets ==
    { [ticker |-> "AAPL", broker |-> NoBroker, quantity |-> 10, price |-> 100,
       currency |-> NoCurrency, priceInUSD |-> NoUSD],
      [ticker |-> "AAPL", broker |-> NoBroker, quantity |-> 5, price |-> 120,
       currency |-> "USD", priceInUSD |-> <<120>>],
      [ticker |-> "AAPL", broker |-> NoBroker, quantity |-> 12, price |-> 150,
       currency |-> "USD", priceInUSD |-> <<150>>],
      [ticker |-> "AAPL", broker |-> "IBKR", quantity |-> 5, price |-> 100,
       currency |-> "EUR", priceInUSD |-> <<108>>] }

OpTypes == {"ADD", "REMOVE"}

-----------------------------------------------------------------------------
(* Exact rationals for the code's floating-point quotients *)

Abs(x) == IF x < 0 THEN -x ELSE x

RECURSIVE Gcd(_, _)
Gcd(a, b) == IF b = 0 THEN a ELSE Gcd(b, a % b)

\* n / d for d > 0, in lowest terms
Rat(n, d) == LET g == Gcd(Abs(n), d) IN [n |-> n \div g, d |-> d \div g]

RatInt(i) == [n |-> i, d |-> 1]

\* i * r
RatScale(i, r) == Rat(i * r.n, r.d)

\* r + i
RatAddInt(r, i) == Rat(r.n + i * r.d, r.d)

\* r / i for i > 0
RatDivInt(r, i) == Rat(r.n, r.d * i)

\* a + b
RatAdd(a, b) == Rat(a.n * b.d + b.n * a.d, a.d * b.d)

-----------------------------------------------------------------------------
(* Sequences *)

RECURSIVE Reverse(_)
Reverse(s) == IF s = <<>> THEN <<>> ELSE Append(Reverse(Tail(s)), Head(s))


\* Array.prototype.sort with comparator getTime(a.date) - getTime(b.date):
\* stable, ascending by date; elements of equal date keep their input order.
InsertByDate(sorted, op) ==
    LET n == Cardinality({i \in 1..Len(sorted) : sorted[i].date <= op.date})
    IN SubSeq(sorted, 1, n) \o <<op>> \o SubSeq(sorted, n + 1, Len(sorted))

\* Mutant: no sort, the operations are replayed as delivered
SortByDate_Unsorted(ops) == ops

RECURSIVE SortByDate(_)
SortByDate(ops) ==
    IF ops = <<>> THEN <<>>
    ELSE InsertByDate(SortByDate(SubSeq(ops, 1, Len(ops) - 1)), ops[Len(ops)])

-----------------------------------------------------------------------------
(* Position Deriver: services/positions.ts *)

\* const brokerKey = op.broker || 'Unassigned'
BrokerKey(op) == IF op.broker = NoBroker THEN "Unassigned" ELSE op.broker

\* const key = `${op.ticker}-${brokerKey}`
PositionKey(op) == <<op.ticker, BrokerKey(op)>>

\* The position a key is initialised with when first seen
NewPosition(op) ==
    [id |-> PositionKey(op), ticker |-> op.ticker, quantity |-> 0,
     buyPrice |-> RatInt(0), buyDate |-> op.date, broker |-> op.broker]

\* Mutant: the average buy price is overwritten by the price of the last ADD
AddToPosition_LastPrice(pos, op) ==
    [pos EXCEPT !.buyPrice = RatInt(op.price),
                !.quantity = pos.quantity + op.quantity,
                !.buyDate = IF pos.quantity = 0 THEN op.date ELSE @]

\* ADD branch: weighted average cost basis
AddToPosition(pos, op) ==
    LET totalCost == RatAddInt(RatScale(pos.quantity, pos.buyPrice), op.quantity * op.price)
        newQuantity == pos.quantity + op.quantity
    IN [pos EXCEPT
          !.buyPrice = IF newQuantity > 0 THEN RatDivInt(totalCost, newQuantity) ELSE RatInt(0),
          !.quantity = newQuantity,
          !.buyDate = IF newQuantity = op.quantity THEN op.date ELSE @]

\* Mutant: the REMOVE also rescales the average buy price with the quantity
RemoveFromPosition_Rescale(pos, op) ==
    [pos EXCEPT !.quantity = @ - op.quantity,
                !.buyPrice = IF pos.quantity > op.quantity
                             THEN RatDivInt(RatScale(pos.quantity, @), pos.quantity - op.quantity)
                             ELSE @]

\* Mutant: the REMOVE also restamps the position with its own date
RemoveFromPosition_Redate(pos, op) ==
    [pos EXCEPT !.quantity = @ - op.quantity, !.buyDate = op.date]

\* REMOVE branch: quantity only
RemoveFromPosition(pos, op) == [pos EXCEPT !.quantity = @ - op.quantity]

\* Mutant: the negative quantity is kept
ClampQuantity_NoClamp(pos) == pos

\* if (pos.quantity < 0) pos.quantity = 0
ClampQuantity(pos) == IF pos.quantity < 0 THEN [pos EXCEPT !.quantity = 0] ELSE pos

\* One iteration of sortedOps.forEach; positionMap is [order, map]: the keys in
\* insertion order (the order of Object.values) and the position of each key.
ApplyOperation(pm, op) ==
    LET key == PositionKey(op)
        pm1 == IF key \in DOMAIN pm.map THEN pm
               ELSE [order |-> Append(pm.order, key),
                     map |-> pm.map @@ (key :> NewPosition(op))]
        pos == pm1.map[key]
        pos1 == IF op.type = "ADD" THEN AddToPosition(pos, op)
                ELSE IF op.type = "REMOVE" THEN RemoveFromPosition(pos, op)
                ELSE pos
    IN [pm1 EXCEPT !.map[key] = ClampQuantity(pos1)]

EmptyPositionMap == [order |-> <<>>, map |-> <<>>]

\* positionMap after the first k operations of the date-sorted list
RECURSIVE PositionMapAfter(_, _)
PositionMapAfter(sortedOps, k) ==
    IF k = 0 THEN EmptyPositionMap
    ELSE ApplyOperation(PositionMapAfter(sortedOps, k - 1), sortedOps[k])

\* Mutant: every key of the map is returned
IsActive_All(p) == TRUE

\* filter(p => p.quantity > 0.000001): quantities are integers here
IsActive(p) == p.quantity > 0

calculatePositions(ops) ==
    LET sortedOps == SortByDate(ops)
        pm == PositionMapAfter(sortedOps, Len(sortedOps))
        all == [i \in 1..Len(pm.order) |-> pm.map[pm.order[i]]]
    IN SelectSeq(all, IsActive)

-----------------------------------------------------------------------------
(* Realized P&L Engine: the closedTrades memo of components/ClosedOperations.tsx *)

\* const opPriceUSD = op.priceInUSD ?? op.price
OpPriceUSD(op) == IF op.priceInUSD = NoUSD THEN op.price ELSE op.priceInUSD[1]

\* const opCurrency = op.currency ?? 'USD'
OpCurrency(op) == IF op.currency = NoCurrency THEN "USD" ELSE op.currency

\* The lot an ADD pushes onto the tail of its ticker's queue
NewLot(op) ==
    [quantity |-> op.quantity, price |-> op.price, priceUSD |-> OpPriceUSD(op),
     currency |-> OpCurrency(op), date |-> op.date]

\* (pnl / base) * 100 for base >= 0. A zero base is IEEE division by zero:
\* d = 0 with n = 0 is NaN, n = 1 is Infinity, n = -1 is -Infinity.
PnlPercent(pnl, base) ==
    IF base = 0
    THEN [n |-> IF pnl > 0 THEN 1 ELSE IF pnl < 0 THEN 0 - 1 ELSE 0, d |-> 0]
    ELSE Rat(100 * pnl, base)

\* The trade pushed for `quantity` units of `batch` closed by REMOVE `op`;
\* suffix is "" for a fully closed batch and "partial" for a partly closed one.
\* The id string `${op.id}-${batch.date}${suffix}` is the tuple of its parts.
Trade(op, batch, quantity, suffix) ==
    LET pnl == (OpPriceUSD(op) - batch.priceUSD) * quantity
    IN [id |-> <<op.id, batch.date, suffix>>, ticker |-> op.ticker,
        openDate |-> batch.date, closeDate |-> op.date, quantity |-> quantity,
        entryPrice |-> batch.price, exitPrice |-> op.price,
        entryPriceUSD |-> batch.priceUSD, exitPriceUSD |-> OpPriceUSD(op),
        currency |-> batch.currency, pnl |-> pnl,
        pnlPercent |-> PnlPercent(pnl, batch.priceUSD * quantity)]

\* Mutant: the newest lot is matched first (LIFO)
RECURSIVE MatchLots_NewestFirst(_, _, _, _)
MatchLots_NewestFirst(op, queue, quantityToClose, trades) ==
    IF quantityToClose > 0 /\ Len(queue) > 0
    THEN LET batch == queue[Len(queue)]
             older == SubSeq(queue, 1, Len(queue) - 1)
         IN IF batch.quantity <= quantityToClose
            THEN MatchLots_NewestFirst(op, older, quantityToClose - batch.quantity,
                                       Append(trades, Trade(op, batch, batch.quantity, "")))
            ELSE MatchLots_NewestFirst(op,
                                       Append(older, [batch EXCEPT !.quantity = @ - quantityToClose]),
                                       0,
                                       Append(trades, Trade(op, batch, quantityToClose, "partial")))
    ELSE [queue |-> queue, trades |-> trades]

\* Mutant: a partly closed lot keeps its whole quantity
RECURSIVE MatchLots_NoDecrement(_, _, _, _)
MatchLots_NoDecrement(op, queue, quantityToClose, trades) ==
    IF quantityToClose > 0 /\ Len(queue) > 0
    THEN LET batch == Head(queue)
         IN IF batch.quantity <= quantityToClose
            THEN MatchLots_NoDecrement(op, Tail(queue), quantityToClose - batch.quantity,
                                       Append(trades, Trade(op, batch, batch.quantity, "")))
            ELSE [queue |-> queue,
                  trades |-> Append(trades, Trade(op, batch, quantityToClose, "partial"))]
    ELSE [queue |-> queue, trades |-> trades]

\* Mutant: only the oldest lot is matched, the loop body runs at most once
MatchLots_SingleLot(op, queue, quantityToClose, trades) ==
    IF quantityToClose > 0 /\ Len(queue) > 0
    THEN LET batch == Head(queue)
         IN IF batch.quantity <= quantityToClose
            THEN [queue |-> Tail(queue),
                  trades |-> Append(trades, Trade(op, batch, batch.quantity, ""))]
            ELSE [queue |-> <<[batch EXCEPT !.quantity = @ - quantityToClose]>> \o Tail(queue),
                  trades |-> Append(trades, Trade(op, batch, quantityToClose, "partial"))]
    ELSE [queue |-> queue, trades |-> trades]

\* while (quantityToClose > 0 && tickerInventory.length > 0) { ... }
RECURSIVE MatchLots(_, _, _, _)
MatchLots(op, queue, quantityToClose, trades) ==
    IF quantityToClose > 0 /\ Len(queue) > 0
    THEN LET batch == Head(queue)
         IN IF batch.quantity <= quantityToClose
            THEN MatchLots(op, Tail(queue), quantityToClose - batch.quantity,
                           Append(trades, Trade(op, batch, batch.quantity, "")))
            ELSE MatchLots(op,
                           <<[batch EXCEPT !.quantity = @ - quantityToClose]>> \o Tail(queue),
                           0,
                           Append(trades, Trade(op, batch, quantityToClose, "partial")))
    ELSE [queue |-> queue, trades |-> trades]

\* One iteration of operations.forEach; st is [inventory, trades]
ReplayOperation(st, op) ==
    LET inv == IF op.ticker \in DOMAIN st.inventory THEN st.inventory
               ELSE st.inventory @@ (op.ticker :> <<>>)
    IN IF op.type = "ADD"
       THEN [inventory |-> [inv EXCEPT ![op.ticker] = Append(@, NewLot(op))],
             trades |-> st.trades]
       ELSE IF op.type = "REMOVE"
       THEN LET m == MatchLots(op, inv[op.ticker], op.quantity, st.trades)
            IN [inventory |-> [inv EXCEPT ![op.ticker] = m.queue], trades |-> m.trades]
       ELSE [inventory |-> inv, trades |-> st.trades]

\* Mutant: the lot queues live outside the memo and survive a replay
NewInventory_Kept == inventory

\* const inventory = {} : every run of the memo starts from no lots
NewInventory == <<>>

\* The replay state after the first k operations
RECURSIVE ReplayAfter(_, _)
ReplayAfter(ops, k) ==
    IF k = 0 THEN [inventory |-> NewInventory, trades |-> <<>>]
    ELSE ReplayOperation(ReplayAfter(ops, k - 1), ops[k])

\* trades.sort((a, b) => getTime(b.closeDate) - getTime(a.closeDate)):
\* stable, descending by close date
InsertByCloseDate(sorted, t) ==
    LET n == Cardinality({i \in 1..Len(sorted) : sorted[i].closeDate >= t.closeDate})
    IN SubSeq(sorted, 1, n) \o <<t>> \o SubSeq(sorted, n + 1, Len(sorted))

RECURSIVE SortByCloseDateDesc(_)
SortByCloseDateDesc(ts) ==
    IF ts = <<>> THEN <<>>
    ELSE InsertByCloseDate(SortByCloseDateDesc(SubSeq(ts, 1, Len(ts) - 1)), ts[Len(ts)])

-----------------------------------------------------------------------------
(* Valuation: the portfolioAssets memo of the Dashboard, broker filter 'All' *)

\* p.buyPriceUSD ?? p.buyPrice
BuyPriceUSD(p) == IF "buyPriceUSD" \in DOMAIN p THEN p.buyPriceUSD ELSE p.buyPrice

\* group.reduce((sum, p) => sum + ((p.buyPriceUSD ?? p.buyPrice) * p.quantity), 0)
RECURSIVE CostBasisUSDOf(_)
CostBasisUSDOf(group) ==
    IF group = <<>> THEN RatInt(0)
    ELSE RatAdd(CostBasisUSDOf(SubSeq(group, 1, Len(group) - 1)),
                RatScale(group[Len(group)].quantity, BuyPriceUSD(group[Len(group)])))

\* group.reduce((sum, p) => sum + p.quantity, 0)
RECURSIVE SumQuantity(_)
SumQuantity(group) ==
    IF group = <<>> THEN 0 ELSE SumQuantity(Tail(group)) + Head(group).quantity

\* group.reduce((sum, p) => sum + (p.buyPrice * p.quantity), 0)
RECURSIVE CostBasisOf(_)
CostBasisOf(group) ==
    IF group = <<>> THEN RatInt(0)
    ELSE RatAdd(CostBasisOf(SubSeq(group, 1, Len(group) - 1)),
                RatScale(group[Len(group)].quantity, group[Len(group)].buyPrice))

\* totalCostBasisUSD of the asset the positions of `ticker` are grouped into
TotalCostBasisUSD(poss, ticker) == CostBasisUSDOf(SelectSeq(poss, LAMBDA p : p.ticker = ticker))

-----------------------------------------------------------------------------
(* Ledger Store: services/operations.ts *)

\* orderBy('timestamp', 'asc'): the snapshot the positions listener maps
SnapshotAscending(docs) == docs

\* orderBy('timestamp', 'desc'): the snapshot subscribeToOperations delivers
SnapshotDescending(docs) == Reverse(docs)

-----------------------------------------------------------------------------
(* Value series: the holdings replay of the portfolioHistory memo *)

\* operations.filter(op => selectedBroker === 'All' || op.broker === selectedBroker)
\* .sort(by date)
SortedOps(ops, selectedBroker) ==
    SortByDate(SelectSeq(ops, LAMBDA op : selectedBroker = "All" \/ op.broker = selectedBroker))

\* One step of the forEach over sortedOps for the point at `date`
HoldOperation(holdings, op, date) ==
    IF op.date <= date
    THEN LET held == IF op.ticker \in DOMAIN holdings THEN holdings[op.ticker] ELSE 0
             quantity == IF op.type = "ADD" THEN held + op.quantity
                         ELSE IF held - op.quantity < 0 THEN 0 ELSE held - op.quantity
         IN [t \in DOMAIN holdings \cup {op.ticker} |->
                IF t = op.ticker THEN quantity ELSE holdings[t]]
    ELSE holdings

\* holdings (ticker -> quantity) after the first k operations of sortedOps
RECURSIVE HoldingsAfter(_, _, _)
HoldingsAfter(sortedOps, k, date) ==
    IF k = 0 THEN <<>>
    ELSE HoldOperation(HoldingsAfter(sortedOps, k - 1, date), sortedOps[k], date)

\* The holdings of the point at `date`
HoldingsAt(ops, selectedBroker, date) ==
    LET sortedOps == SortedOps(ops, selectedBroker)
    IN HoldingsAfter(sortedOps, Len(sortedOps), date)

\* Array.from(set).sort() of a set of dates
RECURSIVE SortDates(_)
SortDates(dates) ==
    IF dates = {} THEN <<>>
    ELSE LET first == CHOOSE d \in dates : \A e \in dates : d <= e
         IN <<first>> \o SortDates(dates \ {first})

\* allDates: the dates of the histories of the entries that are not null
AllDates(info) ==
    UNION {{info[t].history[j].date : j \in 1..Len(info[t].history)} :
              t \in {u \in DOMAIN info : "history" \in DOMAIN info[u]}}

\* forexRates[data.currency] || 1: the MarketData of utils/marketData.ts has no
\* currency, and forexRates has no entry for undefined
ForexRateOf(data) == 1

\* priceHistoryMap[data.symbol]: date -> h.close * forexRate; of two entries
\* of the history with the same date the later one stays
PriceHistory(data) ==
    LET dates == {data.history[j].date : j \in 1..Len(data.history)}
    IN [d \in dates |->
           LET j == CHOOSE k \in 1..Len(data.history) :
                       /\ data.history[k].date = d
                       /\ \A l \in 1..Len(data.history) : data.history[l].date = d => l <= k
           IN data.history[j].close * ForexRateOf(data)]

\* priceHistoryMap: built from the entries that are not null, under their symbol
PriceHistoryMap(info) ==
    LET present == {t \in DOMAIN info : "history" \in DOMAIN info[t]}
        symbols == {info[t].symbol : t \in present}
    IN [sym \in symbols |->
           PriceHistory(info[CHOOSE t \in present : info[t].symbol = sym])]

\* Mutant: only the price of the date itself counts
PriceUSD_ExactDate(priceHistory, date) ==
    IF date \in DOMAIN priceHistory THEN priceHistory[date] ELSE 0

\* priceUSD of the ticker for the date: priceHistory[date], or if that is
\* missing or 0 the price of the latest available date <= date; 0 stands for
\* the values `if (priceUSD)` skips
PriceUSD(priceHistory, date) ==
    IF date \in DOMAIN priceHistory /\ priceHistory[date] # 0 THEN priceHistory[date]
    ELSE LET availableDates == {d \in DOMAIN priceHistory : d <= date}
         IN IF availableDates = {} THEN 0
            ELSE priceHistory[CHOOSE d \in availableDates : \A e \in availableDates : e <= d]

\* value of the point at `date`: the sum over Object.keys(holdings)
RECURSIVE ValueOf(_, _, _, _)
ValueOf(holdings, tickers, priceHistoryMap, date) ==
    IF tickers = {} THEN 0
    ELSE LET ticker == CHOOSE t \in tickers : TRUE
             rest == ValueOf(holdings, tickers \ {ticker}, priceHistoryMap, date)
         IN IF holdings[ticker] > 0 /\ ticker \in DOMAIN priceHistoryMap
            THEN rest + PriceUSD(priceHistoryMap[ticker], date) * holdings[ticker]
            ELSE rest

\* The portfolioHistory memo
PortfolioHistoryOf(info, ops, selectedBroker) ==
    LET sortedDates == SortDates(AllDates(info))
        priceHistoryMap == PriceHistoryMap(info)
        points == [k \in 1..Len(sortedDates) |->
                      LET holdings == HoldingsAt(ops, selectedBroker, sortedDates[k])
                      IN [date |-> sortedDates[k],
                          value |-> ValueOf(holdings, DOMAIN holdings, priceHistoryMap,
                                            sortedDates[k])]]
    IN SelectSeq(points, LAMBDA h : h.value > 0)

-----------------------------------------------------------------------------
(* Risk metrics: utils/metrics.ts. The series is the sequence of its values; *)
(* volatility and the Sharpe ratio need square roots and are left out.       *)

\* Values of the series, the spec's example 100, 110, 90, 120 among them
HistoryValues == {0, 90, 100, 110, 120}

MaxHistory == 4

\* a > b on numbers of which a may be NaN (d = 0): a comparison with NaN is false
RatGreater(a, b) == a.d # 0 /\ b.d # 0 /\ a.n * b.d > b.n * a.d

\* Mutant: the peak stays at its initial value
RunningPeak_Initial(peak, value) == peak

\* if (point.value > peak) peak = point.value
RunningPeak(peak, value) == IF value > peak THEN value ELSE peak

\* (peak - point.value) / peak for 0 <= value <= peak; 0 / 0 is NaN
Drawdown(peak, value) ==
    IF peak = 0 THEN [n |-> 0, d |-> 0] ELSE Rat(peak - value, peak)

\* for (const point of portfolioHistory) { ... } from index i on
RECURSIVE DrawdownScan(_, _, _, _)
DrawdownScan(values, i, peak, maxDrawdown) ==
    IF i > Len(values) THEN maxDrawdown
    ELSE LET peak1 == RunningPeak(peak, values[i])
             drawdown == Drawdown(peak1, values[i])
         IN DrawdownScan(values, i + 1, peak1,
                         IF RatGreater(drawdown, maxDrawdown) THEN drawdown ELSE maxDrawdown)

calculateMetrics(history) ==
    IF Len(history) < 2 THEN [maxDrawdown |-> RatInt(0)]
    ELSE [maxDrawdown |-> DrawdownScan(history, 1, history[1], RatInt(0))]

-----------------------------------------------------------------------------
(* Exchange rates: getExchangeRate of services/settings.ts *)

\* const CACHE_DURATION = 5 * 60 * 1000
CACHE_DURATION == 300000

MaxInFlight == 2

\* The calls made: (fromCurrency, toCurrency) as the caller passes them
Requests ==
    { <<"USD", "USD">>, <<"eur", "EUR">>, <<"EUR", "USD">>, <<"EUR", "GBP">>,
      <<"XYZ", "USD">> }

\* The calls made for one pair of currencies, in both directions
PairRequests == { <<"EUR", "USD">>, <<"USD", "EUR">> }

\* String.prototype.toUpperCase on the codes above
ToUpper(code) ==
    CASE code = "usd" -> "USD"
      [] code = "eur" -> "EUR"
      [] OTHER -> code

RatInv(r) == Rat(r.d, r.n)

RatMul(a, b) == Rat(a.n * b.n, a.d * b.d)

\* result.meta.regularMarketPrice of a response that has no such field
Undefined == [undefined |-> TRUE]

\* What the provider does with a request: the request fails, the response has
\* no chart result or no meta, the meta has no regularMarketPrice, or it has one
ProviderOutcomes == {"error", "empty", "noprice", "price"}

\* The regularMarketPrice the provider quotes for the symbol `${pair}=X`
ProviderRate(pair) ==
    CASE pair = <<"EUR", "USD">> -> Rat(110, 100)
      [] pair = <<"USD", "EUR">> -> Rat(91, 100)
      [] OTHER -> Rat(125, 100)

\* The entries of FALLBACK_RATES for EUR and GBP against USD; the pair string
\* `${from}${to}` of two three-letter codes is the pair <<from, to>>
FALLBACK_RATES ==
    (<<"EUR", "USD">> :> Rat(108, 100)) @@ (<<"GBP", "USD">> :> Rat(127, 100)) @@
    (<<"USD", "EUR">> :> Rat(93, 100)) @@ (<<"USD", "GBP">> :> Rat(79, 100))

\* FALLBACK_RATES[pair] || 1
FallbackOr1(pair) ==
    IF pair \in DOMAIN FALLBACK_RATES THEN FALLBACK_RATES[pair] ELSE RatInt(1)

\* Mutant: no table, every fallback is 1
getFallbackRate_One(from, to) == RatInt(1)

getFallbackRate(from, to) ==
    IF <<from, to>> \in DOMAIN FALLBACK_RATES THEN FALLBACK_RATES[<<from, to>>]
    ELSE IF <<to, from>> \in DOMAIN FALLBACK_RATES THEN RatInv(FALLBACK_RATES[<<to, from>>])
    ELSE IF from # "USD" /\ to # "USD"
         THEN RatMul(FallbackOr1(<<from, "USD">>), FallbackOr1(<<"USD", to>>))
    ELSE RatInt(1)

\* Mutant: the codes are compared as passed
SameCurrency_CaseSensitive(fromCurrency, toCurrency) == fromCurrency = toCurrency

\* fromCurrency.toUpperCase() === toCurrency.toUpperCase()
SameCurrency(fromCurrency, toCurrency) == ToUpper(fromCurrency) = ToUpper(toCurrency)

\* Mutant: an entry never expires
CacheFresh_NoExpiry(pair, t) == pair \in DOMAIN FOREX_CACHE

\* FOREX_CACHE[pair] && (now - FOREX_CACHE[pair].timestamp < CACHE_DURATION)
CacheFresh(pair, t) ==
    pair \in DOMAIN FOREX_CACHE /\ t - FOREX_CACHE[pair].timestamp < CACHE_DURATION

\* FOREX_CACHE[pair] = { pair, rate, timestamp }
CachePut(cache, pair, rate, timestamp) ==
    [p \in DOMAIN cache \cup {pair} |->
        IF p = pair THEN [pair |-> pair, rate |-> rate, timestamp |-> timestamp]
        ELSE cache[p]]

\* A call that returned: its arguments, the value it resolved to, whether it
\* looked into the cache, the provider's outcome ("none": no request made),
\* and the time of the return
Returned(fromCurrency, toCurrency, value, cacheRead, provider) ==
    <<[from |-> fromCurrency, to |-> toCurrency, value |-> value,
       cacheRead |-> cacheRead, provider |-> provider, at |-> now]>>

-----------------------------------------------------------------------------
(* Market data: fetchMarketData of utils/marketData.ts *)

\* const CACHE_DURATION = 60 * 1000 of marketData.ts
MARKET_CACHE_DURATION == 60000

\* The regularMarketPrice the provider may quote for a symbol
Quotes == {130}

\* The value null of Promise<MarketData | null>
NullData == [null |-> TRUE]

\* What the provider does with a chart request: it answers with a quote, it
\* answers without result or meta (a symbol it does not know), the request
\* fails with status 429, or it fails otherwise (network, 5xx)
MarketOutcomes == {"ok", "nodata", "error429", "error"}

\* The closes of the chart response by date (the third day is the day of the
\* quote): the response has no close of day 2 for AAPL and GOOGL and none of
\* day 1 for MSFT, and for the other symbols it has the close of the third
\* day only
History(symbol, price) ==
    CASE symbol = "AAPL" -> <<[date |-> 1, close |-> 120], [date |-> 3, close |-> price]>>
      [] symbol = "MSFT" -> <<[date |-> 2, close |-> 50], [date |-> 3, close |-> price]>>
      [] symbol = "GOOGL" -> <<[date |-> 1, close |-> 80], [date |-> 3, close |-> price]>>
      [] OTHER -> <<[date |-> 3, close |-> price]>>

\* newData of fetchMarketData; changePercent and sector are left out
MarketData(symbol, price) ==
    [symbol |-> symbol, price |-> price, history |-> History(symbol, price)]

\* CACHE[symbol] && (now - CACHE[symbol].timestamp < CACHE_DURATION)
MarketCacheFresh(symbol, t) ==
    symbol \in DOMAIN CACHE /\ t - CACHE[symbol].timestamp < MARKET_CACHE_DURATION

\* What fetchMarketData resolves to once the request is settled
FetchResult(symbol, outcome, price) ==
    IF outcome = "ok" THEN MarketData(symbol, price)
    ELSE IF outcome = "nodata" THEN NullData
    ELSE IF outcome = "error429" /\ symbol \in DOMAIN CACHE THEN CACHE[symbol].data
    ELSE NullData

\* CACHE[symbol] = { timestamp: now, data: newData }
MarketCachePut(cache, symbol, timestamp, data) ==
    [t \in DOMAIN cache \cup {symbol} |->
        IF t = symbol THEN [timestamp |-> timestamp, data |-> data] ELSE cache[t]]

\* A fetchMarketData call that returned: its symbol, what settled it ("cached":
\* no request made) and the value it resolved to
Fetched(symbol, outcome, result) ==
    <<[symbol |-> symbol, outcome |-> outcome, result |-> result]>>

-----------------------------------------------------------------------------
(* Dashboard: loadData and the portfolioAssets memo *)

\* Array.from(new Set(positions.map(p => p.ticker))): first occurrences, in order
RECURSIVE UniqueTickers(_)
UniqueTickers(poss) ==
    IF poss = <<>> THEN <<>>
    ELSE LET front == UniqueTickers(SubSeq(poss, 1, Len(poss) - 1))
             ticker == poss[Len(poss)].ticker
         IN IF \E i \in 1..Len(front) : front[i] = ticker THEN front
            ELSE Append(front, ticker)

\* newData[ticker] = data
SetEntry(data, ticker, value) ==
    [t \in DOMAIN data \cup {ticker} |-> IF t = ticker THEN value ELSE data[t]]

\* newData after the fetches of `tickers` that the cache answers at time t
RECURSIVE CachedEntries(_, _)
CachedEntries(tickers, t) ==
    IF tickers = <<>> THEN <<>>
    ELSE LET rest == CachedEntries(Tail(tickers), t)
         IN IF MarketCacheFresh(Head(tickers), t)
            THEN SetEntry(rest, Head(tickers), CACHE[Head(tickers)].data)
            ELSE rest

\* The values of the broker filter
BrokerFilters == {"All", "IBKR", "Unassigned"}

\* if (selectedBroker !== 'All' && p.broker !== selectedBroker) return
FilterByBroker(poss, selectedBroker) ==
    SelectSeq(poss, LAMBDA p : selectedBroker = "All" \/ p.broker = selectedBroker)

RatNeg(r) == [n |-> 0 - r.n, d |-> r.d]

RatSub(a, b) == RatAdd(a, RatNeg(b))

\* a / b for b > 0
RatDiv(a, b) == Rat(a.n * b.d, a.d * b.n)

\* Mutant: an unknown symbol is valued at cost, as a pending one is
UnknownValuation_AtCost(totalCostBasisUSD) ==
    [currentPrice |-> RatInt(0), currentPriceUSD |-> RatInt(0),
     marketValue |-> totalCostBasisUSD, gainLoss |-> RatInt(0),
     gainLossPercent |-> RatInt(0)]

\* if (data === null) { ... }
UnknownValuation(totalCostBasisUSD) ==
    [currentPrice |-> RatInt(0), currentPriceUSD |-> RatInt(0),
     marketValue |-> RatInt(0), gainLoss |-> RatSub(RatInt(0), totalCostBasisUSD),
     gainLossPercent |-> RatInt(0 - 100)]

\* else if (data) { ... }: MarketData has no currency, so the asset currency
\* is 'USD' and the forex rate forexRates['USD'] || 1 = 1
PricedValuation(data, totalQty, totalCostBasisUSD) ==
    LET marketValue == RatInt(data.price * totalQty)
        gainLoss == RatSub(marketValue, totalCostBasisUSD)
    IN [currentPrice |-> RatInt(data.price), currentPriceUSD |-> RatInt(data.price),
        marketValue |-> marketValue, gainLoss |-> gainLoss,
        gainLossPercent |-> IF totalCostBasisUSD.n > 0
                            THEN RatScale(100, RatDiv(gainLoss, totalCostBasisUSD))
                            ELSE RatInt(0)]

\* else { marketValue = totalCostBasisUSD }: no entry for the ticker yet
PendingValuation(avgBuyPrice, avgBuyPriceUSD, totalCostBasisUSD) ==
    [currentPrice |-> avgBuyPrice, currentPriceUSD |-> avgBuyPriceUSD,
     marketValue |-> totalCostBasisUSD, gainLoss |-> RatInt(0),
     gainLossPercent |-> RatInt(0)]

\* The asset the positions of one ticker are aggregated into
Asset(ticker, group, info) ==
    LET totalQty == SumQuantity(group)
        totalCostBasisUSD == CostBasisUSDOf(group)
        avgBuyPriceUSD == IF totalQty > 0 THEN RatDivInt(totalCostBasisUSD, totalQty)
                          ELSE RatInt(0)
        avgBuyPrice == IF totalQty > 0 THEN RatDivInt(CostBasisOf(group), totalQty)
                       ELSE RatInt(0)
        v == IF ticker \in DOMAIN info
             THEN IF info[ticker] = NullData THEN UnknownValuation(totalCostBasisUSD)
                  ELSE PricedValuation(info[ticker], totalQty, totalCostBasisUSD)
             ELSE PendingValuation(avgBuyPrice, avgBuyPriceUSD, totalCostBasisUSD)
    IN [id |-> group[1].id, ticker |-> ticker, quantity |-> totalQty,
        buyPrice |-> avgBuyPrice, buyPriceUSD |-> avgBuyPriceUSD,
        currentPrice |-> v.currentPrice, currentPriceUSD |-> v.currentPriceUSD,
        marketValue |-> v.marketValue, gainLoss |-> v.gainLoss,
        gainLossPercent |-> v.gainLossPercent,
        isUnknown |-> (ticker \in DOMAIN info /\ info[ticker] = NullData)]

\* The portfolioAssets memo: one asset per ticker of the filtered positions
portfolioAssets(poss, info, selectedBroker) ==
    LET shown == FilterByBroker(poss, selectedBroker)
        tickers == UniqueTickers(shown)
    IN [i \in 1..Len(tickers) |->
          Asset(tickers[i], SelectSeq(shown, LAMBDA p : p.ticker = tickers[i]), info)]

-----------------------------------------------------------------------------
(* The state machine *)

\* The components as they are mounted and the module-level caches as they
\* are loaded
InitViews ==
    /\ posSnapshot = <<>>
    /\ positions = <<>>
    /\ operations = <<>>
    /\ closedTrades = <<>>
    /\ inventory = <<>>
    /\ replays = 1
    /\ now = StartTime
    /\ FOREX_CACHE = <<>>
    /\ forexCalls = {}
    /\ lastCall = <<>>
    /\ CACHE = <<>>
    /\ marketDataInfo = <<>>
    /\ loadRun = <<>>
    /\ lastFetch = <<>>
    /\ portfolioHistory = <<>>
    /\ metrics = calculateMetrics(<<>>)
    /\ dashboardOperations = <<>>

\* An empty operations collection
Init == ledger = <<>> /\ InitViews

\* The operations collection an earlier session left: six tickers bought
\* through IBKR, an AAPL sale, and a TSLA sale dated before the TSLA purchase
StoredLedger ==
    LET Op(id, type, ticker, quantity, price, date) ==
            [id |-> id, type |-> type, ticker |-> ticker, quantity |-> quantity,
             price |-> price, currency |-> "USD", priceInUSD |-> <<price>>,
             date |-> date, broker |-> "IBKR"]
    IN << Op(1, "ADD", "AAPL", 10, 100, 1), Op(2, "ADD", "MSFT", 5, 50, 1),
          Op(3, "REMOVE", "TSLA", 5, 70, 1), Op(4, "REMOVE", "AAPL", 4, 120, 2),
          Op(5, "ADD", "GOOGL", 2, 80, 2), Op(6, "ADD", "NVDA", 1, 90, 2),
          Op(7, "ADD", "TSLA", 3, 70, 2), Op(8, "ADD", "AMZN", 1, 60, 2) >>

InitStored == ledger = StoredLedger /\ InitViews

\* logOperation: addDoc of the operation with a server timestamp; the new
\* document is the latest by timestamp and gets a fresh document id.
LogOperation ==
    /\ Len(ledger) < MaxOps
    /\ \E ticket \in Tickets, type \in OpTypes, date \in Dates :
          ledger' = Append(ledger,
                           [id |-> Len(ledger) + 1, type |-> type, ticker |-> ticket.ticker,
                            quantity |-> ticket.quantity, price |-> ticket.price,
                            currency |-> ticket.currency, priceInUSD |-> ticket.priceInUSD,
                            date |-> date, broker |-> ticket.broker])
    /\ UNCHANGED <<posSnapshot, positions, operations, closedTrades, inventory, replays>>
    /\ UNCHANGED <<forexVars, marketVars, metricsVars, seriesVars>>

\* The onSnapshot callback of subscribeToPositions
PositionsSnapshot ==
    /\ posSnapshot' = SnapshotAscending(ledger)
    /\ positions' = calculatePositions(posSnapshot')
    /\ UNCHANGED <<ledger, operations, closedTrades, inventory, replays>>
    /\ UNCHANGED <<forexVars, marketVars, metricsVars, seriesVars>>

\* The subscribeToOperations callback of ClosedOperations (sort, setOperations)
\* and the closedTrades memo the resulting render runs
OperationsSnapshot ==
    /\ operations' = SortByDate(SnapshotDescending(ledger))
    /\ LET st == ReplayAfter(operations', Len(operations'))
       IN /\ closedTrades' = SortByCloseDateDesc(st.trades)
          /\ inventory' = st.inventory
    /\ replays' = IF operations' = operations THEN 2 ELSE 1
    /\ UNCHANGED <<ledger, posSnapshot, positions>>
    /\ UNCHANGED <<forexVars, marketVars, metricsVars, seriesVars>>

\* The subscribeToOperations callback of the Dashboard: setOperations(ops)
DashboardOperationsSnapshot ==
    /\ dashboardOperations' = SnapshotDescending(ledger)
    /\ UNCHANGED <<ledgerVars, forexVars, marketVars, metricsVars>>

\* The value series gains a point and the metrics memo runs on the new series
RenderMetrics ==
    /\ Len(portfolioHistory) < MaxHistory
    /\ \E value \in HistoryValues :
          /\ portfolioHistory' = Append(portfolioHistory, value)
          /\ metrics' = calculateMetrics(portfolioHistory')
    /\ UNCHANGED <<ledgerVars, forexVars, marketVars, seriesVars>>

\* Time passes
Tick ==
    /\ \E t \in Times : t > now /\ now' = t
    /\ UNCHANGED <<FOREX_CACHE, forexCalls, lastCall>>
    /\ UNCHANGED <<ledgerVars, marketVars, metricsVars, seriesVars>>

\* getExchangeRate up to its return or to the await of the provider request,
\* called with one of `requests`
GetExchangeRateOf(requests) ==
    /\ \E req \in requests :
          LET fromCurrency == req[1]
              toCurrency == req[2]
              from == ToUpper(fromCurrency)
              to == ToUpper(toCurrency)
              pair == <<from, to>>
          IN IF SameCurrency(fromCurrency, toCurrency)
             THEN /\ lastCall' = Returned(fromCurrency, toCurrency, RatInt(1), FALSE, "none")
                  /\ UNCHANGED <<FOREX_CACHE, forexCalls>>
             ELSE IF CacheFresh(pair, now)
             THEN /\ lastCall' = Returned(fromCurrency, toCurrency, FOREX_CACHE[pair].rate,
                                          TRUE, "none")
                  /\ UNCHANGED <<FOREX_CACHE, forexCalls>>
             ELSE /\ Cardinality(forexCalls) < MaxInFlight
                  /\ forexCalls' = forexCalls \cup
                        {[fromCurrency |-> fromCurrency, toCurrency |-> toCurrency,
                          from |-> from, to |-> to, now |-> now]}
                  /\ UNCHANGED <<FOREX_CACHE, lastCall>>
    /\ UNCHANGED <<now, ledgerVars, marketVars, metricsVars, seriesVars>>

GetExchangeRate == GetExchangeRateOf(Requests)

\* The calls of a caller that converts between EUR and USD only
GetExchangeRatePair == GetExchangeRateOf(PairRequests)

\* getExchangeRate from the provider's answer (or the rejection of the
\* request) to its return
ExchangeRateResponse ==
    /\ \E call \in forexCalls, outcome \in ProviderOutcomes :
          LET pair == <<call.from, call.to>>
          IN /\ forexCalls' = forexCalls \ {call}
             /\ IF outcome \in {"error", "empty"}
                THEN /\ lastCall' = Returned(call.fromCurrency, call.toCurrency,
                                             getFallbackRate(call.from, call.to), TRUE, outcome)
                     /\ UNCHANGED FOREX_CACHE
                ELSE LET rate == IF outcome = "price" THEN ProviderRate(pair) ELSE Undefined
                     IN /\ FOREX_CACHE' = CachePut(FOREX_CACHE, pair, rate, call.now)
                        /\ lastCall' = Returned(call.fromCurrency, call.toCurrency, rate,
                                                TRUE, outcome)
    /\ UNCHANGED <<now, ledgerVars, marketVars, metricsVars, seriesVars>>

\* const BATCH_SIZE = 5 of loadData
BATCH_SIZE == 5

MaxRuns == 2

\* Mutant: the batch is all that is left of the tickers
Batch_Rest(uniqueTickers, i) == SubSeq(uniqueTickers, i + 1, Len(uniqueTickers))

\* uniqueTickers.slice(i, i + BATCH_SIZE), i counted from 0
Batch(uniqueTickers, i) ==
    SubSeq(uniqueTickers, i + 1,
           IF i + BATCH_SIZE < Len(uniqueTickers) THEN i + BATCH_SIZE ELSE Len(uniqueTickers))

\* A loadData run at its start: its tickers, the loop index i, newData, the
\* fetches awaited, the tickers fetchMarketData was called for, and where the
\* run stands ("fetching", "delay" between two batches, "done")
NewRun(uniqueTickers) ==
    [uniqueTickers |-> uniqueTickers, i |-> 0, newData |-> <<>>, pending |-> {},
     calls |-> <<>>, stage |-> "fetching"]

\* batch.map(async ticker => ...): fetchMarketData is called for every ticker
\* of the batch at run.i; a fetch the cache answers resolves at once and its
\* data is entered into newData, the others await the provider
StartBatch(run) ==
    LET batch == Batch(run.uniqueTickers, run.i)
        cached == CachedEntries(batch, now)
    IN [run EXCEPT
           !.newData = [t \in DOMAIN run.newData \cup DOMAIN cached |->
                           IF t \in DOMAIN cached THEN cached[t] ELSE run.newData[t]],
           !.pending = {[symbol |-> batch[j], now |-> now] :
                           j \in {k \in 1..Len(batch) : ~MarketCacheFresh(batch[k], now)}},
           !.calls = run.calls \o batch,
           !.stage = "fetching"]

\* After Promise.all: with no fetch of the batch left the run waits for the
\* delay if tickers remain (i + BATCH_SIZE < uniqueTickers.length) and has
\* left the loop otherwise
AfterBatch(run) ==
    IF run.pending # {} THEN run
    ELSE IF run.i + BATCH_SIZE < Len(run.uniqueTickers) THEN [run EXCEPT !.stage = "delay"]
    ELSE [run EXCEPT !.stage = "done"]

\* The last fetch of the batch at run.i that the cache answered, if any
CacheAnswer(run, previous) ==
    LET batch == Batch(run.uniqueTickers, run.i)
        answered == {j \in 1..Len(batch) : MarketCacheFresh(batch[j], now)}
    IN IF answered = {} THEN previous
       ELSE LET j == CHOOSE k \in answered : \A l \in answered : l <= k
            IN Fetched(batch[j], "cached", CACHE[batch[j]].data)

\* No run is under way
AllDone(runs) == \A j \in 1..Len(runs) : runs[j].stage = "done"

\* A run that left the loop calls setMarketDataInfo(newData)
Publish(runs, r) ==
    /\ marketDataInfo' = IF runs[r].stage = "done" THEN runs[r].newData ELSE marketDataInfo
    /\ loadRun' = runs

\* loadData up to its first await that waits: called by the effect on
\* `positions` or by the refresh button, also while earlier runs are under
\* way (at most maxRuns runs are followed at a time; the runs that are done
\* are forgotten when a run starts with no other under way)
LoadDataUpTo(maxRuns) ==
    /\ positions # <<>>
    /\ LET earlier == IF AllDone(loadRun) THEN <<>> ELSE loadRun
           run == NewRun(UniqueTickers(positions))
       IN /\ Len(earlier) < maxRuns
          /\ Publish(Append(earlier, AfterBatch(StartBatch(run))), Len(earlier) + 1)
          /\ lastFetch' = CacheAnswer(run, lastFetch)
    /\ UNCHANGED <<CACHE, ledgerVars, forexVars, metricsVars, seriesVars>>

LoadData == LoadDataUpTo(MaxRuns)

\* loadData while no other run is under way
LoadDataAlone == LoadDataUpTo(1)

\* fetchMarketData from the provider's answer (or the rejection of the request)
\* to its return, and loadData's `newData[ticker] = data`; when it was the last
\* fetch of the batch, loadData goes on to the delay or to
\* setMarketDataInfo(newData)
MarketDataResponse ==
    /\ \E r \in 1..Len(loadRun) :
          \E fetch \in loadRun[r].pending, outcome \in MarketOutcomes, price \in Quotes :
             LET data == FetchResult(fetch.symbol, outcome, price)
                 run == [loadRun[r] EXCEPT
                            !.newData = SetEntry(loadRun[r].newData, fetch.symbol, data),
                            !.pending = loadRun[r].pending \ {fetch}]
             IN /\ CACHE' = IF outcome = "ok"
                            THEN MarketCachePut(CACHE, fetch.symbol, fetch.now, data)
                            ELSE CACHE
                /\ lastFetch' = Fetched(fetch.symbol, outcome, data)
                /\ Publish([loadRun EXCEPT ![r] = AfterBatch(run)], r)
    /\ UNCHANGED <<ledgerVars, forexVars, metricsVars, seriesVars>>

\* The timer of the delay between two batches fires: i += BATCH_SIZE and the
\* next batch is fetched
NextBatch ==
    /\ \E r \in 1..Len(loadRun) :
          /\ loadRun[r].stage = "delay"
          /\ LET run == [loadRun[r] EXCEPT !.i = @ + BATCH_SIZE]
             IN /\ Publish([loadRun EXCEPT ![r] = AfterBatch(StartBatch(run))], r)
                /\ lastFetch' = CacheAnswer(run, lastFetch)
    /\ UNCHANGED <<CACHE, ledgerVars, forexVars, metricsVars, seriesVars>>

\* Both listeners attached to the collection
-----------------------------------------------------------------------------
(* The operations form (handleOperation) and the edit of the history view *)

MaxFormOps == 2

\* What the user enters: parseFloat(newQty), parseFloat(newPrice) (the price
\* field has min="0"), the currency and the broker selected
FormQuantities == {5, 10}

FormPrices == {0, 100}

FormCurrencies == {"USD", "EUR"}

FormBrokers == {"IBKR"}

\* let exchangeRate = 1; for another currency than USD what
\* getExchangeRate(currency, 'USD') resolves to: the provider's quote or the
\* fallback rate
EntryRates(currency) ==
    IF currency = "USD" THEN {RatInt(1)}
    ELSE {ProviderRate(<<currency, "USD">>), getFallbackRate(currency, "USD")}

\* price * exchangeRate, a whole number for the prices and rates above
TimesRate(price, exchangeRate) == (price * exchangeRate.n) \div exchangeRate.d

\* positions.find(p => p.ticker === ticker && p.broker === newOperationBroker)
\* and currentPos ? currentPos.quantity : 0
CurrentQty(ticker, broker) ==
    LET found == SelectSeq(positions, LAMBDA p : p.ticker = ticker /\ p.broker = broker)
    IN IF found = <<>> THEN 0 ELSE found[1].quantity

\* handleOperation with the three fields filled in and a broker selected: the
\* rate is fetched, a SELL of more than the derived position holds is refused,
\* and the operation is logged
HandleOperation ==
    /\ Len(ledger) < MaxFormOps
    /\ \E operationType \in {"BUY", "SELL"}, quantity \in FormQuantities,
          price \in FormPrices, currency \in FormCurrencies, newDate \in Dates,
          newOperationBroker \in FormBrokers :
          \E exchangeRate \in EntryRates(currency) :
             /\ operationType = "SELL" => ~(quantity > CurrentQty("AAPL", newOperationBroker))
             /\ ledger' = Append(ledger,
                    [id |-> Len(ledger) + 1,
                     type |-> IF operationType = "BUY" THEN "ADD" ELSE "REMOVE",
                     ticker |-> "AAPL", quantity |-> quantity, price |-> price,
                     currency |-> currency,
                     priceInUSD |-> <<TimesRate(price, exchangeRate)>>,
                     exchangeRate |-> exchangeRate, date |-> newDate,
                     broker |-> newOperationBroker])
    /\ UNCHANGED <<posSnapshot, positions, operations, closedTrades, inventory, replays>>
    /\ UNCHANGED <<forexVars, marketVars, metricsVars, seriesVars>>

\* The price the user corrects an operation to in the history view
EditPrices == {50}

\* handleSaveEdit: updateOperation(editingId, editForm) writes the edit form's
\* ticker, quantity, price, date and broker into the document; the user changed
\* the price and left the other fields as handleEditClick filled them in
SaveEdit ==
    /\ \E editingId \in 1..Len(ledger), price \in EditPrices :
          LET op == ledger[editingId]
              editForm == [ticker |-> op.ticker, quantity |-> op.quantity,
                           price |-> price, date |-> op.date, broker |-> op.broker]
          IN ledger' = [ledger EXCEPT ![editingId] =
                           [f \in DOMAIN op |->
                               IF f \in DOMAIN editForm THEN editForm[f] ELSE op[f]]]
    /\ UNCHANGED <<posSnapshot, positions, operations, closedTrades, inventory, replays>>
    /\ UNCHANGED <<forexVars, marketVars, metricsVars, seriesVars>>

Next == LogOperation \/ PositionsSnapshot \/ OperationsSnapshot

Spec == Init /\ [][Next]_vars

\* App.tsx mounts one view at a time. With the dashboard mounted only the
\* positions listener is attached ...
NextDashboard == LogOperation \/ PositionsSnapshot

SpecDashboard == Init /\ [][NextDashboard]_vars

\* ... and with the closed-operations view mounted only ClosedOperations'
\* operations listener is.
NextClosedView == LogOperation \/ OperationsSnapshot

SpecClosedView == Init /\ [][NextClosedView]_vars

\* The metrics memo over the value series the Dashboard hands it
NextMetrics == RenderMetrics

SpecMetrics == Init /\ [][NextMetrics]_vars

\* The dashboard with its market data: the positions listener, loadData (one
\* run at a time), the provider and the clock
NextMarket == LogOperation \/ PositionsSnapshot \/ LoadDataAlone \/ MarketDataResponse \/ Tick

SpecMarket == Init /\ [][NextMarket]_vars

\* The dashboard whose loadData is called again (by the effect on a new
\* positions snapshot or by the refresh button) while runs are under way
NextRefresh == LogOperation \/ PositionsSnapshot \/ LoadData \/ MarketDataResponse

SpecRefresh == Init /\ [][NextRefresh]_vars

\* The callers of getExchangeRate, the provider and the clock
NextForex == GetExchangeRate \/ ExchangeRateResponse \/ Tick

SpecForex == Init /\ [][NextForex]_vars

NextForexPair == GetExchangeRatePair \/ ExchangeRateResponse \/ Tick

SpecForexPair == Init /\ [][NextForexPair]_vars

\* The Dashboard's two listeners, which feed the positions table and the
\* holdings of the value series
NextHoldings == LogOperation \/ PositionsSnapshot \/ DashboardOperationsSnapshot

SpecHoldings == Init /\ [][NextHoldings]_vars

\* The Dashboard opened on the stored collection: its listeners and loadData,
\* one run at a time
NextLoad ==
    PositionsSnapshot \/ DashboardOperationsSnapshot \/ LoadDataAlone
       \/ MarketDataResponse \/ NextBatch

SpecLoad == InitStored /\ [][NextLoad]_vars

\* The operations form of the Dashboard with the listeners of the two views
NextForm == HandleOperation \/ PositionsSnapshot \/ OperationsSnapshot

SpecForm == Init /\ [][NextForm]_vars

\* ... and with the edits of the history view
NextEdit == HandleOperation \/ SaveEdit \/ PositionsSnapshot \/ OperationsSnapshot

SpecEdit == Init /\ [][NextEdit]_vars

-----------------------------------------------------------------------------
(* Helpers of the properties *)

Min(a, b) == IF a <= b THEN a ELSE b

RECURSIVE SumSeq(_)
SumSeq(s) == IF s = <<>> THEN 0 ELSE Head(s) + SumSeq(Tail(s))

Range(s) == {s[i] : i \in 1..Len(s)}

AllKeys == {PositionKey(t) : t \in Tickets}

AllTickers == {t.ticker : t \in Tickets}

\* The operations of one (ticker, broker) key, in the order of `ops`
KeyOps(ops, key) == SelectSeq(ops, LAMBDA o : PositionKey(o) = key)

\* The order in which the positions listener replayed its last snapshot
PositionReplayOrder == SortByDate(posSnapshot)

\* Quantity held after the first k operations of a key: ADD adds, REMOVE
\* takes away what is there, at most op.quantity
RECURSIVE HeldAfter(_, _)
HeldAfter(ks, k) ==
    IF k = 0 THEN 0
    ELSE LET h == HeldAfter(ks, k - 1)
         IN IF ks[k].type = "ADD" THEN h + ks[k].quantity
            ELSE h - Min(ks[k].quantity, h)

SumAdds(ks) == SumSeq([k \in 1..Len(ks) |-> IF ks[k].type = "ADD" THEN ks[k].quantity ELSE 0])

SumClampedRemoves(ks) ==
    SumSeq([k \in 1..Len(ks) |->
               IF ks[k].type = "REMOVE" THEN Min(ks[k].quantity, HeldAfter(ks, k - 1)) ELSE 0])

\* The positions of the output with a given id
PositionsOf(key) == {i \in 1..Len(positions) : positions[i].id = key}

\* Some REMOVE of the key asked for more than was held
SomeRemoveClamped(ks) ==
    \E k \in 1..Len(ks) : ks[k].type = "REMOVE" /\ ks[k].quantity > HeldAfter(ks, k - 1)

-----------------------------------------------------------------------------
(* C1 *)

\* C1 (Conservation): for every (ticker, broker) key, the quantity of the derived
\* position equals sum(ADD.quantity) - sum(REMOVE.quantity clamped at what is held
\* at that point), folded in replay order; a key whose result is 0 has no position,
\* every other key has exactly one.
C1_Conservation ==
    \A key \in AllKeys :
        LET ks == KeyOps(PositionReplayOrder, key)
            q == SumAdds(ks) - SumClampedRemoves(ks)
        IN IF q = 0 THEN PositionsOf(key) = {}
           ELSE /\ Cardinality(PositionsOf(key)) = 1
                /\ \A i \in PositionsOf(key) : positions[i].quantity = q

\* A key with a clamped REMOVE followed by an ADD holds a position again
C1_Witness ==
    \E key \in AllKeys :
        LET ks == KeyOps(PositionReplayOrder, key)
        IN /\ Len(ks) >= 3
           /\ SomeRemoveClamped(ks)
           /\ PositionsOf(key) # {}

-----------------------------------------------------------------------------
(* C2, C3: the two replay engines on the same ledger *)

\* Both listeners have received the same documents
SameLedger == Range(operations) = Range(posSnapshot)

TickerQuantity(recs, ticker) ==
    SumSeq([i \in 1..Len(recs) |-> IF recs[i].ticker = ticker THEN recs[i].quantity ELSE 0])

TickerAdds(ops, ticker) ==
    SumSeq([i \in 1..Len(ops) |->
               IF ops[i].ticker = ticker /\ ops[i].type = "ADD" THEN ops[i].quantity ELSE 0])

\* C2 (reconciliation): for every ticker, the quantities of the ClosedTrades the
\* matcher emits plus the quantities of the ticker's current positions (all
\* brokers) equal the sum of the ticker's ADD quantities.
C2_ClosedPlusOpenIsAdded ==
    SameLedger =>
        \A ticker \in AllTickers :
            TickerQuantity(closedTrades, ticker) + TickerQuantity(positions, ticker)
                = TickerAdds(posSnapshot, ticker)

\* Ascending by date, and by creation timestamp (the document's place in the
\* ledger, which its id records here) among equal dates
InDateThenTimestampOrder(ops) ==
    \A i, j \in 1..Len(ops) :
        i < j => \/ ops[i].date < ops[j].date
                 \/ ops[i].date = ops[j].date /\ ops[i].id < ops[j].id

\* C3 (same replay order): both engines replay ascending by date and, among
\* equal dates, ascending by creation timestamp; so on the same ledger they
\* replay the operations in the same sequence.
C3_SameReplayOrder ==
    /\ InDateThenTimestampOrder(PositionReplayOrder)
    /\ InDateThenTimestampOrder(operations)
    /\ SameLedger => operations = PositionReplayOrder

-----------------------------------------------------------------------------
(* C4 *)

-----------------------------------------------------------------------------
(* C5 *)

\* The orders in which the documents of a snapshot could have been inserted
InsertionOrders(ops) ==
    LET n == Len(ops)
        perms == {f \in [1..n -> 1..n] : \A i, j \in 1..n : i # j => f[i] # f[j]}
    IN {[i \in 1..n |-> ops[f[i]]] : f \in perms}

\* C5 as stated (idempotent replay): whatever order the operations were
\* inserted in, calculatePositions derives the same positions.
C5_AnyInsertionOrderSamePositions ==
    \A other \in InsertionOrders(posSnapshot) :
        Range(calculatePositions(other)) = Range(positions)

\* No two operations of one (ticker, broker) key have the same date
DistinctDatesPerKey(ops) ==
    \A i, j \in 1..Len(ops) :
        (i # j /\ PositionKey(ops[i]) = PositionKey(ops[j])) => ops[i].date # ops[j].date

\* C5 amended: when no two operations of the same (ticker, broker) key share a
\* date, the positions are the same whatever order the operations were inserted in.
C5_DistinctDatesAnyOrderSamePositions ==
    DistinctDatesPerKey(posSnapshot) =>
        \A other \in InsertionOrders(posSnapshot) :
            Range(calculatePositions(other)) = Range(positions)

\* A REMOVE dated after an ADD of its key was inserted before it, and the key
\* holds a position
C5_Witness ==
    /\ DistinctDatesPerKey(posSnapshot)
    /\ \E i, j \in 1..Len(posSnapshot) :
          /\ i < j
          /\ PositionKey(posSnapshot[i]) = PositionKey(posSnapshot[j])
          /\ posSnapshot[i].type = "REMOVE" /\ posSnapshot[j].type = "ADD"
          /\ posSnapshot[i].date > posSnapshot[j].date
          /\ posSnapshot[i].quantity < posSnapshot[j].quantity
          /\ PositionsOf(PositionKey(posSnapshot[j])) # {}

-----------------------------------------------------------------------------
(* C6: FIFO matching *)

IsOp(o, type, quantity, price) == o.type = type /\ o.quantity = quantity /\ o.price = price

\* The lot queue of a ticker in a replay state (no queue yet: no lots)
QueueOf(st, ticker) == IF ticker \in DOMAIN st.inventory THEN st.inventory[ticker] ELSE <<>>

TickerOps(ops, ticker) == SelectSeq(ops, LAMBDA o : o.ticker = ticker)

TradesOf(ticker) == SelectSeq(closedTrades, LAMBDA t : t.ticker = ticker)

\* What the k-th replayed operation, a REMOVE, did to the lots of its ticker
RemoveConsumesOldestFirst(k) ==
    LET op == operations[k]
        before == ReplayAfter(operations, k - 1)
        after == ReplayAfter(operations, k)
        lots == QueueOf(before, op.ticker)
        left == QueueOf(after, op.ticker)
        emitted == SubSeq(after.trades, Len(before.trades) + 1, Len(after.trades))
        n == Len(emitted)
    IN /\ SubSeq(after.trades, 1, Len(before.trades)) = before.trades
       /\ n <= Len(lots)
       /\ \A j \in 1..n :
             /\ emitted[j].openDate = lots[j].date
             /\ emitted[j].entryPriceUSD = lots[j].priceUSD
             /\ emitted[j].quantity > 0
             /\ emitted[j].quantity = IF j < n THEN lots[j].quantity
                                      ELSE Min(lots[j].quantity,
                                               op.quantity - SumSeq([i \in 1..(n - 1) |-> lots[i].quantity]))
             /\ emitted[j].pnl = (OpPriceUSD(op) - lots[j].priceUSD) * emitted[j].quantity
       /\ left = IF n > 0 /\ emitted[n].quantity < lots[n].quantity
                 THEN <<[lots[n] EXCEPT !.quantity = @ - emitted[n].quantity]>>
                          \o SubSeq(lots, n + 1, Len(lots))
                 ELSE SubSeq(lots, n + 1, Len(lots))

\* The matcher replayed, for AAPL, exactly ADD 10 @ 100, ADD 5 @ 120, REMOVE 12 @ 150
FifoScenario ==
    LET ops == TickerOps(operations, "AAPL")
    IN /\ Len(ops) = 3
       /\ IsOp(ops[1], "ADD", 10, 100) /\ OpPriceUSD(ops[1]) = 100
       /\ IsOp(ops[2], "ADD", 5, 120) /\ OpPriceUSD(ops[2]) = 120
       /\ IsOp(ops[3], "REMOVE", 12, 150) /\ OpPriceUSD(ops[3]) = 150

\* C6 (FIFO): every REMOVE consumes the open lots of its ticker oldest first,
\* one ClosedTrade per lot touched, fully consumed lots for their whole
\* quantity and at most the last lot partially, each with
\* pnl = (exit price USD - lot price USD) * matched quantity, and leaves the
\* unconsumed lots in order. For lots 10 @ 100 and 5 @ 120 a REMOVE of 12 @ 150
\* gives trades of 10 and 2 with total PnL 560 and leaves the second lot at
\* the head of the queue with quantity 3.
C6_FifoOldestFirst ==
    /\ Range(closedTrades) = Range(ReplayAfter(operations, Len(operations)).trades)
    /\ inventory = ReplayAfter(operations, Len(operations)).inventory
    /\ \A k \in 1..Len(operations) :
          operations[k].type = "REMOVE" => RemoveConsumesOldestFirst(k)
    /\ FifoScenario =>
          LET ts == TradesOf("AAPL")
          IN /\ Len(ts) = 2
             /\ {ts[1].quantity, ts[2].quantity} = {10, 2}
             /\ {ts[1].pnl, ts[2].pnl} = {500, 60}
             /\ ts[1].pnl + ts[2].pnl = 560
             /\ Len(inventory["AAPL"]) = 1
             /\ inventory["AAPL"][1].quantity = 3
             /\ inventory["AAPL"][1].priceUSD = 120

C6_Witness == FifoScenario /\ Len(closedTrades) = 2

-----------------------------------------------------------------------------
(* C7, C8: the scenario of the Position Deriver *)

\* The positions listener replayed, for one key, ADD 10 @ 100 then ADD 5 @ 120
TwoAddsReplayed(key) ==
    LET ks == KeyOps(PositionReplayOrder, key)
    IN /\ Len(ks) = 2
       /\ IsOp(ks[1], "ADD", 10, 100)
       /\ IsOp(ks[2], "ADD", 5, 120)

\* ... and for one key ADD 10 @ 100, ADD 5 @ 120, REMOVE 12
TwoAddsAndRemoveReplayed(key) ==
    LET ks == KeyOps(PositionReplayOrder, key)
    IN /\ Len(ks) = 3
       /\ IsOp(ks[1], "ADD", 10, 100)
       /\ IsOp(ks[2], "ADD", 5, 120)
       /\ ks[3].type = "REMOVE" /\ ks[3].quantity = 12

\* C7 as stated: after ADD 10 @ 100, ADD 5 @ 120 and REMOVE 12 on one key the
\* position has quantity 3 and average cost 120.
C7_RemainderAtCostOfOpenLot ==
    \A key \in AllKeys :
        TwoAddsAndRemoveReplayed(key) =>
            /\ PositionsOf(key) # {}
            /\ \A i \in PositionsOf(key) :
                  positions[i].quantity = 3 /\ positions[i].buyPrice = RatInt(120)

\* C7 amended: the position has quantity 3 and keeps the weighted average
\* cost of the two ADDs, 1600 / 15.
C7_RemainderAtAverageCost ==
    \A key \in AllKeys :
        TwoAddsAndRemoveReplayed(key) =>
            /\ PositionsOf(key) # {}
            /\ \A i \in PositionsOf(key) :
                  positions[i].quantity = 3 /\ RatScale(15, positions[i].buyPrice) = RatInt(1600)

C7_Witness ==
    \E key \in AllKeys : TwoAddsAndRemoveReplayed(key) /\ PositionsOf(key) # {}

\* The position of the key of operation sortedOps[k] before that operation
PositionBefore(sortedOps, k) ==
    LET pm == PositionMapAfter(sortedOps, k - 1)
        key == PositionKey(sortedOps[k])
    IN IF key \in DOMAIN pm.map THEN pm.map[key] ELSE NewPosition(sortedOps[k])

PositionAfter(sortedOps, k) == PositionMapAfter(sortedOps, k).map[PositionKey(sortedOps[k])]

\* C8 (weighted average): on every ADD the quantity becomes oldQty + opQty and
\* the average buy price (oldQty*oldAvg + opQty*opPrice) / (oldQty + opQty);
\* after ADD 10 @ 100 then ADD 5 @ 120 from an empty key the position has
\* quantity 15 and quantity * average price = 1600.
C8_WeightedAverageOnAdd ==
    /\ \A k \in 1..Len(PositionReplayOrder) :
          LET op == PositionReplayOrder[k]
              old == PositionBefore(PositionReplayOrder, k)
              new == PositionAfter(PositionReplayOrder, k)
          IN op.type = "ADD" =>
                /\ new.quantity = old.quantity + op.quantity
                /\ RatScale(new.quantity, new.buyPrice)
                      = RatAddInt(RatScale(old.quantity, old.buyPrice), op.quantity * op.price)
    /\ \A key \in AllKeys :
          TwoAddsReplayed(key) =>
              /\ PositionsOf(key) # {}
              /\ \A i \in PositionsOf(key) :
                    /\ positions[i].quantity = 15
                    /\ RatScale(positions[i].quantity, positions[i].buyPrice) = RatInt(1600)

C8_Witness == \E key \in AllKeys : TwoAddsReplayed(key) /\ PositionsOf(key) # {}

-----------------------------------------------------------------------------
(* C9: USD cost basis *)

\* sum of quantity * (priceInUSD, or price when absent) over the operations
UsdCostOfAdds(ops) == SumSeq([i \in 1..Len(ops) |-> ops[i].quantity * OpPriceUSD(ops[i])])

\* C9 (USD average): the USD average buy price of a position is the
\* quantity-weighted average of its ADDs' priceInUSD (price when absent), and
\* the valuation's USD cost basis is that average times the quantity. Stated
\* for the tickers that were only bought, where every ADD is still held: the
\* valuation's USD cost basis is the sum of quantity * priceInUSD of the ADDs.
C9_UsdCostBasis ==
    \A ticker \in AllTickers :
        LET ops == TickerOps(posSnapshot, ticker)
        IN (\A i \in 1..Len(ops) : ops[i].type = "ADD") =>
              TotalCostBasisUSD(positions, ticker) = RatInt(UsdCostOfAdds(ops))

-----------------------------------------------------------------------------
(* C10 *)

\* C10 (zero-quantity exclusion): no position of the output has quantity 0,
\* and a key whose operations net to exactly zero has no position, however
\* many operations it has.
C10_NoZeroQuantityPosition ==
    /\ \A i \in 1..Len(positions) : positions[i].quantity # 0
    /\ \A key \in AllKeys :
          LET ks == KeyOps(PositionReplayOrder, key)
          IN HeldAfter(ks, Len(ks)) = 0 => \A i \in 1..Len(positions) : positions[i].id # key

\* A key with an ADD and a REMOVE that net to zero is absent while another
\* key is present
C10_Witness ==
    /\ positions # <<>>
    /\ \E key \in AllKeys :
          LET ks == KeyOps(PositionReplayOrder, key)
          IN /\ Len(ks) >= 2
             /\ SumAdds(ks) > 0
             /\ HeldAfter(ks, Len(ks)) = 0
             /\ PositionsOf(key) = {}

-----------------------------------------------------------------------------
(* C11: identity of the trades of one replay *)

\* The trades the k-th replayed operation pushed
EmittedBy(k) ==
    LET before == ReplayAfter(operations, k - 1)
        after == ReplayAfter(operations, k)
    IN SubSeq(after.trades, Len(before.trades) + 1, Len(after.trades))

\* C11 (trade identity): within one replay all ClosedTrade ids are distinct;
\* in particular the trades one REMOVE produces against several lots have
\* pairwise different ids, also when two matched lots have the same open date.
C11_DistinctTradeIds ==
    /\ \A i, j \in 1..Len(closedTrades) :
          i # j => closedTrades[i].id # closedTrades[j].id
    /\ \A k \in 1..Len(operations) :
          LET emitted == EmittedBy(k)
          IN \A i, j \in 1..Len(emitted) : i # j => emitted[i].id # emitted[j].id

-----------------------------------------------------------------------------
(* C18: quantities never go negative *)

\* C18 (clamp): at every step of the positions replay every position's
\* quantity is >= 0; a REMOVE larger than the held quantity (a REMOVE with no
\* prior ADD included) leaves the quantity exactly 0, any other REMOVE
\* subtracts its quantity, and the replay goes on: every later ADD still adds
\* its quantity and the listed positions are the map's positive entries.
C18_ClampedAtZero ==
    /\ \A k \in 0..Len(PositionReplayOrder) :
          LET pm == PositionMapAfter(PositionReplayOrder, k)
          IN \A key \in DOMAIN pm.map : pm.map[key].quantity >= 0
    /\ \A k \in 1..Len(PositionReplayOrder) :
          LET op == PositionReplayOrder[k]
              old == PositionBefore(PositionReplayOrder, k)
              new == PositionAfter(PositionReplayOrder, k)
          IN /\ (op.type = "REMOVE" /\ op.quantity > old.quantity) => new.quantity = 0
             /\ (op.type = "REMOVE" /\ op.quantity <= old.quantity)
                   => new.quantity = old.quantity - op.quantity
             /\ op.type = "ADD" => new.quantity = old.quantity + op.quantity
    /\ LET pm == PositionMapAfter(PositionReplayOrder, Len(PositionReplayOrder))
       IN \A key \in DOMAIN pm.map :
             IF pm.map[key].quantity > 0
             THEN \E i \in PositionsOf(key) : positions[i].quantity = pm.map[key].quantity
             ELSE PositionsOf(key) = {}

\* A key whose first replayed operation is a REMOVE and that was bought later
C18_Witness ==
    \E k \in 1..Len(PositionReplayOrder) :
        LET op == PositionReplayOrder[k]
            key == PositionKey(op)
        IN /\ op.type = "REMOVE"
           /\ key \notin DOMAIN PositionMapAfter(PositionReplayOrder, k - 1).map
           /\ PositionAfter(PositionReplayOrder, k).quantity = 0
           /\ \E j \in (k + 1)..Len(PositionReplayOrder) :
                 /\ PositionReplayOrder[j].type = "ADD"
                 /\ PositionKey(PositionReplayOrder[j]) = key
           /\ PositionsOf(key) # {}

-----------------------------------------------------------------------------
(* C19: what a REMOVE leaves alone *)

\* C19 (REMOVE frame): a REMOVE changes only the quantity of its own key's
\* position: that position's average buy price and buyDate, and the quantity,
\* average buy price and buyDate of every other key, are what they were.
C19_RemoveChangesOnlyOwnQuantity ==
    \A k \in 1..Len(PositionReplayOrder) :
        LET op == PositionReplayOrder[k]
            key == PositionKey(op)
            before == PositionMapAfter(PositionReplayOrder, k - 1)
            after == PositionMapAfter(PositionReplayOrder, k)
            old == PositionBefore(PositionReplayOrder, k)
            new == PositionAfter(PositionReplayOrder, k)
        IN op.type = "REMOVE" =>
              /\ new.buyPrice = old.buyPrice
              /\ new.buyDate = old.buyDate
              /\ new = [old EXCEPT !.quantity = new.quantity]
              /\ DOMAIN after.map = DOMAIN before.map \cup {key}
              /\ \A other \in DOMAIN before.map \ {key} :
                    after.map[other] = before.map[other]

\* A REMOVE replayed on a held key while another key is held too
C19_Witness ==
    \E k \in 1..Len(PositionReplayOrder) :
        LET op == PositionReplayOrder[k]
            key == PositionKey(op)
            before == PositionMapAfter(PositionReplayOrder, k - 1)
        IN /\ op.type = "REMOVE"
           /\ key \in DOMAIN before.map
           /\ before.map[key].quantity > 0
           /\ before.map[key].buyDate # op.date
           /\ \E other \in DOMAIN before.map \ {key} : before.map[other].quantity > 0

-----------------------------------------------------------------------------
(* C20: how much a REMOVE closes *)

LotsQuantity(queue) == SumSeq([i \in 1..Len(queue) |-> queue[i].quantity])

-----------------------------------------------------------------------------
(* C17: maximum drawdown *)

\* The running maximum of v[1..i]
PeakAt(v, i) == CHOOSE m \in {v[j] : j \in 1..i} : \A j \in 1..i : v[j] <= m

\* (peak_i - v[i]) / peak_i for the points whose peak is not 0
DrawdownsOf(v) == {Rat(PeakAt(v, i) - v[i], PeakAt(v, i)) : i \in {j \in 1..Len(v) : PeakAt(v, j) > 0}}

IsMaxOf(r, rs) == r \in rs /\ \A q \in rs : ~RatGreater(q, r)

-----------------------------------------------------------------------------
(* C12 - C14: getExchangeRate *)

IsNumber(v) == DOMAIN v = {"n", "d"} /\ v.d > 0

\* C12 (currency identity): a getExchangeRate(X, X) call, the two codes equal
\* up to letter case, returns 1 without a provider request and without reading
\* or writing the forex cache.
C12_SameCurrencyIsOne ==
    [][ (lastCall' # lastCall /\ ToUpper(lastCall'[1].from) = ToUpper(lastCall'[1].to))
           => /\ lastCall'[1].value = RatInt(1)
              /\ lastCall'[1].provider = "none"
              /\ lastCall'[1].cacheRead = FALSE
              /\ FOREX_CACHE' = FOREX_CACHE
              /\ forexCalls' = forexCalls
              /\ \A call \in forexCalls : call.from # call.to
              /\ \A pair \in DOMAIN FOREX_CACHE : pair[1] # pair[2] ]_vars

C12_Witness ==
    /\ lastCall # <<>>
    /\ lastCall[1].from = "eur" /\ lastCall[1].to = "EUR"
    /\ lastCall[1].value = RatInt(1)
    /\ FOREX_CACHE # <<>>

\* The rate the fallback table gives for from -> to, by the claim's cases
TableRate(from, to) ==
    LET has(p) == p \in DOMAIN FALLBACK_RATES
    IN IF has(<<from, to>>) THEN {FALLBACK_RATES[<<from, to>>]}
       ELSE IF has(<<to, from>>)
            THEN {Rat(FALLBACK_RATES[<<to, from>>].d, FALLBACK_RATES[<<to, from>>].n)}
       ELSE IF from # "USD" /\ to # "USD" /\ has(<<from, "USD">>) /\ has(<<"USD", to>>)
            THEN {Rat(FALLBACK_RATES[<<from, "USD">>].n * FALLBACK_RATES[<<"USD", to>>].n,
                      FALLBACK_RATES[<<from, "USD">>].d * FALLBACK_RATES[<<"USD", to>>].d)}
       ELSE IF ~has(<<from, "USD">>) /\ ~has(<<"USD", to>>) THEN {RatInt(1)}
       ELSE {}

C14_AlwaysNumericRate ==
    /\ lastCall # <<>> => IsNumber(lastCall[1].value)
    /\ \A pair \in DOMAIN FOREX_CACHE : IsNumber(FOREX_CACHE[pair].rate)

-----------------------------------------------------------------------------
(* C15, C16: unknown symbols *)

\* Sum of buyPrice * quantity over the positions of `ticker` under the filter
RECURSIVE CostOfShown(_, _, _)
CostOfShown(poss, ticker, selectedBroker) ==
    IF poss = <<>> THEN RatInt(0)
    ELSE LET p == Head(poss)
             rest == CostOfShown(Tail(poss), ticker, selectedBroker)
         IN IF p.ticker = ticker /\ (selectedBroker = "All" \/ p.broker = selectedBroker)
            THEN Rat(rest.n * p.buyPrice.d + p.quantity * p.buyPrice.n * rest.d,
                     rest.d * p.buyPrice.d)
            ELSE rest

IsNullEntry(ticker) == ticker \in DOMAIN marketDataInfo /\ marketDataInfo[ticker] = NullData

\* C15 (unknown asset): under every broker filter, an asset whose market-data
\* entry is null has isUnknown = true, currentPrice 0, marketValue 0,
\* gainLoss = -(its cost basis) and gainLossPercent = -100; isUnknown is false
\* for an asset whose entry is present or has not been loaded yet.
C15_UnknownAssetValuation ==
    \A selectedBroker \in BrokerFilters :
        LET assets == portfolioAssets(positions, marketDataInfo, selectedBroker)
        IN \A i \in 1..Len(assets) :
              LET a == assets[i]
                  cost == CostOfShown(positions, a.ticker, selectedBroker)
              IN IF IsNullEntry(a.ticker)
                 THEN /\ a.isUnknown = TRUE
                      /\ a.currentPrice = RatInt(0)
                      /\ a.marketValue = RatInt(0)
                      /\ a.gainLoss = [n |-> 0 - cost.n, d |-> cost.d]
                      /\ a.gainLossPercent = RatInt(0 - 100)
                 ELSE a.isUnknown = FALSE

C15_Witness ==
    /\ IsNullEntry("AAPL")
    /\ Len(positions) = 2
    /\ LET assets == portfolioAssets(positions, marketDataInfo, "All")
       IN /\ Len(assets) = 1
          /\ assets[1].isUnknown
          /\ assets[1].gainLoss.n < 0

\* C16 (null means unknown): fetchMarketData resolves to null only when the
\* provider answered that it has no data for the symbol; a failed request is
\* kept apart from that, so after a run whose last fetch failed no held asset
\* is shown as unknown (market value 0, -100 %).
C16_NullOnlyForUnknownSymbol ==
    /\ (lastFetch # <<>> /\ lastFetch[1].result = NullData) => lastFetch[1].outcome = "nodata"
    /\ (lastFetch # <<>> /\ lastFetch[1].outcome \in {"error", "error429"} /\ AllDone(loadRun))
          => LET assets == portfolioAssets(positions, marketDataInfo, "All")
             IN \A i \in 1..Len(assets) :
                   assets[i].ticker = lastFetch[1].symbol => ~assets[i].isUnknown

-----------------------------------------------------------------------------
(* C25: operations without a broker *)

\* The ticker has a position under the key (ticker, Unassigned)
HasBrokerlessHolding(ticker) ==
    \E i \in 1..Len(positions) :
        positions[i].id = <<ticker, "Unassigned">> /\ positions[i].quantity > 0

\* C25 (Unassigned): an operation without a broker is replayed under the
\* broker "Unassigned": its position has the key (ticker, Unassigned), holds
\* only the operations without a broker, and is among the positions the
\* Dashboard shows when the broker filter is "Unassigned".
C25_UnassignedShown ==
    /\ \A k \in 1..Len(PositionReplayOrder) :
          PositionReplayOrder[k].broker = NoBroker
             => PositionKey(PositionReplayOrder[k]) = <<PositionReplayOrder[k].ticker, "Unassigned">>
    /\ \A i \in 1..Len(positions) :
          positions[i].id[2] = "Unassigned"
             => positions[i].quantity
                   = HeldAfter(SelectSeq(PositionReplayOrder,
                                         LAMBDA o : o.broker = NoBroker
                                                    /\ o.ticker = positions[i].ticker),
                               Len(SelectSeq(PositionReplayOrder,
                                             LAMBDA o : o.broker = NoBroker
                                                        /\ o.ticker = positions[i].ticker)))
    /\ \A ticker \in AllTickers :
          HasBrokerlessHolding(ticker)
             => \E j \in 1..Len(FilterByBroker(positions, "Unassigned")) :
                   FilterByBroker(positions, "Unassigned")[j].id = <<ticker, "Unassigned">>

-----------------------------------------------------------------------------
(* C30: the lot queues during the replay *)

\* The lots the ADDs of `ticker` among the first k replayed operations opened
LotsOpened(k, ticker) ==
    LET adds == SelectSeq(SubSeq(operations, 1, k),
                          LAMBDA o : o.ticker = ticker /\ o.type = "ADD")
    IN [i \in 1..Len(adds) |-> NewLot(adds[i])]

-----------------------------------------------------------------------------
(* C22: the exchange-rate cache *)

\* The pair string a returned call looked up
PairOf(call) == <<ToUpper(call.from), ToUpper(call.to)>>

\* C22 as stated (cache for 5 minutes): a rate obtained from the provider is
\* cached under the ordered pair; at every time less than 5 minutes after the
\* rate was fetched a call for the pair finds it in the cache and is answered
\* from it without a provider call.
C22_CachedForFiveMinutes ==
    (/\ lastCall # <<>>
     /\ lastCall[1].provider = "price"
     /\ now - lastCall[1].at < CACHE_DURATION)
        => /\ PairOf(lastCall[1]) \in DOMAIN FOREX_CACHE
           /\ FOREX_CACHE[PairOf(lastCall[1])].rate = lastCall[1].value
           /\ now - FOREX_CACHE[PairOf(lastCall[1])].timestamp < CACHE_DURATION

\* The requests for the pair that await the provider
AwaitingProvider(calls, pair) == {c \in calls : <<c.from, c.to>> = pair}

\* C22 amended (cache keyed by the ordered pair, stamped with the start of the
\* call): a rate the provider quotes is stored under the ordered pair with the
\* time its call started; a call for the pair that starts less than 5 minutes
\* after the stamp of the pair's entry returns the entry's rate without a
\* provider call, any other call queries the provider; the entry of AB is
\* never the answer to a call for BA.
C22_CacheByCallStart ==
    [][ /\ \A pair \in PairRequests :
            (pair \in DOMAIN FOREX_CACHE' /\ (pair \notin DOMAIN FOREX_CACHE
                                              \/ FOREX_CACHE'[pair] # FOREX_CACHE[pair]))
               => \E c \in AwaitingProvider(forexCalls, pair) :
                     /\ c \notin forexCalls'
                     /\ FOREX_CACHE'[pair].timestamp = c.now
                     /\ FOREX_CACHE'[pair].pair = pair
                     /\ lastCall'[1].provider \in {"price", "noprice"}
                     /\ FOREX_CACHE'[pair].rate = lastCall'[1].value
        /\ \A pair \in PairRequests :
            LET hit == /\ pair \in DOMAIN FOREX_CACHE
                       /\ now - FOREX_CACHE[pair].timestamp < CACHE_DURATION
                answered == /\ lastCall' # <<>>
                            /\ lastCall'[1].provider = "none"
                            /\ PairOf(lastCall'[1]) = pair
                asked == AwaitingProvider(forexCalls', pair) \ forexCalls
            IN /\ (answered /\ lastCall' # lastCall)
                     => /\ hit
                        /\ lastCall'[1].value = FOREX_CACHE[pair].rate
                        /\ forexCalls' = forexCalls
               /\ asked # {} => ~hit /\ \A c \in asked : c.now = now
      ]_vars

\* A call for USD to EUR was answered from the cache while the cache also
\* holds the rate of EUR to USD
C22_Witness ==
    /\ lastCall # <<>>
    /\ lastCall[1].provider = "none"
    /\ lastCall[1].cacheRead
    /\ PairOf(lastCall[1]) = <<"USD", "EUR">>
    /\ lastCall[1].value = Rat(91, 100)
    /\ <<"EUR", "USD">> \in DOMAIN FOREX_CACHE
    /\ FOREX_CACHE[<<"EUR", "USD">>].rate = Rat(110, 100)
    /\ now > StartTime

-----------------------------------------------------------------------------
(* C21, C27, C28: operations entered through the form *)

\* C21 (realized percent): every closed trade has realizedPnLPercent
\* = realizedPnLUSD / (entryPriceUSD x matched quantity) x 100 when the entry
\* price is not 0, and a defined number (no division by zero) when it is 0.
C21_PercentZeroGuarded ==
    \A i \in 1..Len(closedTrades) :
        LET t == closedTrades[i]
        IN IF t.entryPriceUSD # 0
           THEN t.pnlPercent = Rat(100 * t.pnl, t.entryPriceUSD * t.quantity)
           ELSE IsNumber(t.pnlPercent)

\* C27 (accepted sells are never clamped): after any sequence of BUYs and SELLs
\* the form accepted, the replay of the ledger clamps no REMOVE, whatever trade
\* dates the user gave.
C27_AcceptedSellNeverClamped ==
    \A key \in AllKeys : ~SomeRemoveClamped(KeyOps(PositionReplayOrder, key))

\* The operation document a trade's id names
OpById(id) == CHOOSE op \in Range(operations) : op.id = id

\* C28 (USD price follows the price): every operation of the ledger has
\* priceInUSD = price x exchangeRate, and every closed trade's exit USD price
\* is the price x exchangeRate of the REMOVE that closed it.
C28_PriceInUSDFollowsPrice ==
    /\ \A i \in 1..Len(ledger) :
          ledger[i].priceInUSD = <<TimesRate(ledger[i].price, ledger[i].exchangeRate)>>
    /\ \A i \in 1..Len(closedTrades) :
          LET op == OpById(closedTrades[i].id[1])
          IN closedTrades[i].exitPriceUSD = TimesRate(op.price, op.exchangeRate)

-----------------------------------------------------------------------------
(* C29: the holdings of the value series and the positions *)

\* The quantity the value series holds of the ticker at the date
HeldAt(ticker, date) ==
    LET holdings == HoldingsAt(dashboardOperations, "All", date)
    IN IF ticker \in DOMAIN holdings THEN holdings[ticker] ELSE 0

\* C29 (holdings agree with positions): with the broker filter "All", at any
\* date on or after the last operation date the value series holds of each
\* ticker the sum over brokers of the position quantities calculatePositions
\* derives from the same ledger.
C29_HoldingsEqualPositions ==
    Range(dashboardOperations) = Range(posSnapshot)
       => \A ticker \in AllTickers, date \in Dates :
             (\A i \in 1..Len(dashboardOperations) : dashboardOperations[i].date <= date)
                => HeldAt(ticker, date) = TickerQuantity(positions, ticker)

-----------------------------------------------------------------------------
(* C24, C26: the runs of loadData *)

\* How often x occurs in the sequence
Occurrences(seq, x) == Cardinality({j \in 1..Len(seq) : seq[j] = x})

\* Run r is under way before the step and is still run r after it
SameRun(r) == r <= Len(loadRun) /\ r <= Len(loadRun') /\ loadRun[r].stage # "done"

\* Run r is done after the step and was not before
Completes(r) ==
    /\ r <= Len(loadRun') /\ loadRun'[r].stage = "done"
    /\ r > Len(loadRun) \/ AllDone(loadRun) \/ loadRun[r].stage # "done"

\* C24 (waves of five): a loadData run calls fetchMarketData at most once for
\* a ticker, and exactly once for every unique ticker by the time it is done; no
\* more than 5 fetches of a run are outstanding; a run under way calls further
\* fetches only from its delay between two batches, with every earlier fetch
\* settled; a ticker whose fetch failed is not called again; and the
\* market-data map is set only when a run is done, to the run's newData
\* with an entry for every ticker.
C24_WavesOfFive ==
    [][ /\ \A r \in 1..Len(loadRun') :
            LET run == loadRun'[r]
            IN /\ \A j \in 1..Len(run.uniqueTickers) :
                     Occurrences(run.calls, run.uniqueTickers[j]) <= 1
               /\ Cardinality(run.pending) <= 5
               /\ run.stage = "done"
                     => /\ \A j \in 1..Len(run.uniqueTickers) :
                              /\ Occurrences(run.calls, run.uniqueTickers[j]) = 1
                              /\ run.uniqueTickers[j] \in DOMAIN run.newData
                        /\ run.pending = {}
               /\ (SameRun(r) /\ Len(run.calls) > Len(loadRun[r].calls))
                     => /\ loadRun[r].stage = "delay"
                        /\ loadRun[r].pending = {}
                        /\ Len(loadRun[r].calls) = loadRun[r].i + BATCH_SIZE
                        /\ \A j \in 1..Len(loadRun[r].calls) :
                              loadRun[r].calls[j] \in DOMAIN loadRun[r].newData
               /\ Completes(r) => marketDataInfo' = run.newData
        /\ marketDataInfo' # marketDataInfo => \E r \in 1..Len(loadRun') : Completes(r)
      ]_vars

\* A run over six tickers is done: its first wave had a failed fetch, and the
\* sixth ticker was fetched in the second wave
C24_Witness ==
    /\ Len(loadRun) = 1
    /\ loadRun[1].stage = "done"
    /\ Len(loadRun[1].uniqueTickers) = 6
    /\ loadRun[1].i = 5
    /\ marketDataInfo = loadRun[1].newData
    /\ marketDataInfo[loadRun[1].uniqueTickers[2]] = NullData
    /\ marketDataInfo[loadRun[1].uniqueTickers[6]] # NullData
    /\ lastFetch # <<>> /\ lastFetch[1].symbol = loadRun[1].uniqueTickers[6]

\* C26 (overlapping runs): once all of several overlapping loadData runs have
\* completed, the market-data map holds the result of the run that started
\* last, and every ticker of the positions has an entry in it.
C26_LastStartedRunWins ==
    (Len(loadRun) > 1 /\ AllDone(loadRun))
       => /\ marketDataInfo = loadRun[Len(loadRun)].newData
          /\ LET tickers == UniqueTickers(positions)
             IN \A j \in 1..Len(tickers) : tickers[j] \in DOMAIN marketDataInfo

-----------------------------------------------------------------------------
(* C23: the portfolio value series *)

\* The tickers of the operations the Dashboard holds
SeriesTickers == {dashboardOperations[i].ticker : i \in 1..Len(dashboardOperations)}

\* The history of the ticker's market-data entry (none for a ticker without
\* entry and for a null entry)
HistoryOf(ticker) ==
    IF ticker \in DOMAIN marketDataInfo /\ marketDataInfo[ticker] # NullData
    THEN marketDataInfo[ticker].history ELSE <<>>

\* All dates of the histories
HistoryDates ==
    UNION {{HistoryOf(t)[j].date : j \in 1..Len(HistoryOf(t))} : t \in DOMAIN marketDataInfo}

\* The quantity held of the ticker after all operations dated <= d, clamped at
\* 0 after each REMOVE
HeldOn(ticker, d) ==
    LET ks == SelectSeq(SortByDate(dashboardOperations),
                        LAMBDA op : op.ticker = ticker /\ op.date <= d)
    IN HeldAfter(ks, Len(ks))

\* The ticker's USD price at its latest history date <= d, 0 without one
PriceOnOrBefore(ticker, d) ==
    LET h == HistoryOf(ticker)
        js == {j \in 1..Len(h) : h[j].date <= d}
    IN IF js = {} THEN 0
       ELSE h[CHOOSE j \in js : \A k \in js : h[k].date <= h[j].date].close

\* Sum over the tickers of holdings x price for the date
RECURSIVE ValueOfTickers(_, _)
ValueOfTickers(tickers, d) ==
    IF tickers = {} THEN 0
    ELSE LET ticker == CHOOSE t \in tickers : TRUE
         IN HeldOn(ticker, d) * PriceOnOrBefore(ticker, d)
               + ValueOfTickers(tickers \ {ticker}, d)

\* The value the claim gives the date
ValueOn(d) == ValueOfTickers(SeriesTickers, d)

\* C23 (value series): the series has one point for every history date whose
\* value is not 0 and none for the others; the value at date d is the sum over
\* the tickers of (holdings replayed from all operations dated <= d, clamped
\* at 0 after each REMOVE) x (the ticker's USD price at its latest history date
\* <= d, 0 if there is none); the dates of the series are distinct and
\* ascending.
C23_ValueSeries ==
    LET series == PortfolioHistoryOf(marketDataInfo, dashboardOperations, "All")
    IN /\ \A k \in 1..Len(series) :
             /\ series[k].date \in HistoryDates
             /\ series[k].value = ValueOn(series[k].date)
             /\ series[k].value > 0
       /\ \A d \in HistoryDates :
             ValueOn(d) # 0 => \E k \in 1..Len(series) : series[k].date = d
       /\ \A k \in 1..Len(series) - 1 : series[k].date < series[k + 1].date

\* The series drops day 1 (only GOOGL has a close then, and none is held yet),
\* values AAPL and GOOGL on day 2 at their closes of day 1, and gives MSFT no
\* value on day 1
C23_Witness ==
    /\ Len(dashboardOperations) = Len(ledger)
    /\ HistoryOf("AAPL") # <<>> /\ HistoryOf("MSFT") # <<>> /\ HistoryOf("GOOGL") # <<>>
    /\ "TSLA" \in DOMAIN marketDataInfo /\ marketDataInfo["TSLA"] = NullData
    /\ LET series == PortfolioHistoryOf(marketDataInfo, dashboardOperations, "All")
       IN /\ Len(series) = 3
          /\ series[1] = [date |-> 1, value |-> 10 * 120]
          /\ series[2] = [date |-> 2, value |-> 6 * 120 + 5 * 50 + 2 * 80]
          /\ series[3].date = 3

====
